---- MODULE Spec2Model ----
(* State-machine model of src/main.py: a one-shot client that fetches a   *)
(* goal map, clears the remote grid (delete_all) and then applies the     *)
(* pattern selected by the grid size (Phase1Pattern / Phase2Pattern).     *)
(* One action is one HTTP exchange or one control decision of the script. *)
(* Python strings are sequences of one-character strings, so that lower(),*)
(* split(), startswith() and endswith() are computed, not assumed.        *)
EXTENDS Integers, Sequences, FiniteSets, TLC

VARIABLES
  pc,            \* position of the script
  goal_map,      \* result of api.fetch_goal_map()
  grid_size,     \* len(goal_map["goal"])
  phase,         \* result of detect_phase: {1}, {2}, or {} for None
  grid,          \* the remote service's grid: occupied coordinate -> entity
  grid0,         \* the remote grid when the run started
  attempt,       \* delete_all: attempt
  any_deleted,   \* delete_all: any_deleted
  row, col,      \* delete_all: loop variables
  ep,            \* delete_object: index into endpoints
  deleted_any,   \* delete_object: deleted_any
  i, leg,        \* Phase1Pattern.execute: i, and which of its two calls
  row_idx, col_idx, \* Phase2Pattern.execute: loop variables
  call,          \* the place_entity invocation in progress
  strategy,      \* the pattern object the script executes
  execs,         \* number of execute() invocations so far
  rounds,        \* delete_all: rounds run to their end
  roundsDeleting,\* delete_all: rounds run to their end in which a DELETE got a 200
  round200,      \* delete_all: a DELETE of the current round was answered 200
  probes,        \* delete_object invocations per coordinate in the current round
  sent,          \* delete_object: the endpoints a DELETE went to in this call
  got200,        \* delete_object: some DELETE of this call was answered 200
  gotError,      \* delete_object: some DELETE of this call failed (not 200, not 404)
  posts, n429,   \* place_entity: POSTs sent / 429 answers received in this call
  placements,    \* the place_entity invocations so far, in order
  anyGet, anyDelete, anyPost, \* whether a GET / DELETE / POST was ever sent
  gets,          \* number of GETs of the goal map sent so far
  getAnswer,     \* the answer to the GET of the goal map
  retry429,      \* place_entity: 0, or 1 / 2 (in turn) when the last POST got a 429
  abandoned,     \* coordinates whose place_entity call returned without a 201
  outcome,       \* the message delete_all ended with
  deleteFaults,  \* DELETE answers of this delete_all that were not the truthful one
  truthful,      \* every DELETE so far got the truthful answer
  placeFaults,   \* POST answers that were failures
  all201         \* every POST so far was answered 201

vars == << pc, goal_map, grid_size, phase, grid, grid0, attempt, any_deleted,
           row, col, ep, deleted_any, i, leg, row_idx, col_idx, call,
           strategy, execs, rounds, roundsDeleting, round200, probes, sent, got200, gotError,
           posts, n429, placements, anyGet, anyDelete, anyPost,
           outcome, deleteFaults, truthful, placeFaults, all201,
           gets, getAnswer, retry429, abandoned >>

-----------------------------------------------------------------------------
(* Program constants *)
PHASE_1_GRID_SIZE == 11
PHASE_2_GRID_SIZE == 30
max_attempts == 5

(* Bounds of the model *)
MaxRetries == 1        \* 429 answers the service gives to one place_entity call
MaxDeleteFaults == 4   \* DELETE answers per delete_all that are not the truthful one
MaxPlaceFaults == 1    \* POST answers per run that are failures
MaxExecs == 2          \* execute() invocations when a pattern is run repeatedly

None == << >>          \* Python None (and any falsy string)

-----------------------------------------------------------------------------
(* Python str operations on sequences of characters *)
UpperChars == << "A","B","C","D","E","F","G","H","I","J","K","L","M",
                 "N","O","P","Q","R","S","T","U","V","W","X","Y","Z" >>
LowerChars == << "a","b","c","d","e","f","g","h","i","j","k","l","m",
                 "n","o","p","q","r","s","t","u","v","w","x","y","z" >>

lower_char(ch) ==
  IF \E k \in 1..Len(UpperChars) : UpperChars[k] = ch
  THEN LowerChars[CHOOSE k \in 1..Len(UpperChars) : UpperChars[k] = ch]
  ELSE ch

lower(s) == [k \in 1..Len(s) |-> lower_char(s[k])]

startswith(s, p) == Len(s) >= Len(p) /\ SubSeq(s, 1, Len(p)) = p

endswith(s, p) == Len(s) >= Len(p) /\ SubSeq(s, Len(s) - Len(p) + 1, Len(s)) = p

\* s.split("_")[0]
split_first(s) ==
  IF \E k \in 1..Len(s) : s[k] = "_"
  THEN SubSeq(s, 1, (CHOOSE k \in 1..Len(s) :
                       s[k] = "_" /\ \A j \in 1..(k - 1) : s[j] # "_") - 1)
  ELSE s

SPACE == << "S","P","A","C","E" >>
POLYANET == << "P","O","L","Y","A","N","E","T" >>
COMETH == << "C","O","M","E","T","H" >>
SOLOON == << "S","O","L","O","O","N" >>
BLUE_SOLOON == << "B","L","U","E","_","S","O","L","O","O","N" >>
RIGHT_COMETH == << "R","I","G","H","T","_","C","O","M","E","T","H" >>
UP_COMETH == << "U","P","_","C","O","M","E","T","H" >>
RED_SOLOON == << "R","E","D","_","S","O","L","O","O","N" >>
polyanets == << "p","o","l","y","a","n","e","t","s" >>
soloons == << "s","o","l","o","o","n","s" >>
comeths == << "c","o","m","e","t","h","s" >>
blue == << "b","l","u","e" >>
right == << "r","i","g","h","t" >>
up == << "u","p" >>
red == << "r","e","d" >>

-----------------------------------------------------------------------------
(* Data *)
CANDIDATE_ID == "144e3add-dc06-46c6-9398-3a85a0be07b4"

endpoints == << polyanets, soloons, comeths >>

Entity(kind, direction, color) ==
  [kind |-> kind, direction |-> direction, color |-> color]

EmptyGrid == [x \in {} |-> x]

Remove(g, coord) == [x \in DOMAIN g \ {coord} |-> g[x]]

Put(g, coord, e) == [x \in DOMAIN g \cup {coord} |-> IF x = coord THEN e ELSE g[x]]

Min(S) == CHOOSE x \in S : \A y \in S : x <= y

(* goal_map["goal"], a square list of lists of labels, is kept as its size  *)
(* and the labels of the cells listed in `cells`; every other cell is SPACE. *)
\* len(goal_map["goal"])
len(goal) == goal.size

\* goal_map["goal"][r][c]
Cell(goal, r, c) ==
  IF << r, c >> \in DOMAIN goal.cells THEN goal.cells[<< r, c >>] ELSE SPACE

(* The inputs the service is run against: goal maps whose cells are SPACE   *)
(* except at PoolA and PoolB, the X-shaped goal map of the small grid, and  *)
(* remote grids holding entities at PoolA and PoolB.                        *)
PoolA == << 2, 2 >>
PoolB == << 0, 1 >>
LabelsA == { SPACE, POLYANET, BLUE_SOLOON, RIGHT_COMETH }
LabelsB == { SPACE, UP_COMETH, RED_SOLOON }
OtherSize == 12       \* a grid size that is neither phase's

MkGoal(n, a, b) ==
  [size |-> n, cells |-> [x \in { PoolA, PoolB } |-> IF x = PoolA THEN a ELSE b]]

GoalX ==
  [size |-> PHASE_1_GRID_SIZE,
   cells |-> [x \in { << r, c >> : r \in 2..(PHASE_1_GRID_SIZE - 3),
                                   c \in 2..(PHASE_1_GRID_SIZE - 3) }
                      \ { << r, c >> \in (0..PHASE_1_GRID_SIZE) \X (0..PHASE_1_GRID_SIZE) :
                            c # r /\ c # PHASE_1_GRID_SIZE - 1 - r }
              |-> POLYANET]]

Goals ==
  { MkGoal(PHASE_2_GRID_SIZE, a, b) : a \in LabelsA, b \in LabelsB }
  \cup { MkGoal(PHASE_1_GRID_SIZE, SPACE, UP_COMETH) }
  \cup { MkGoal(OtherSize, a, SPACE) : a \in { SPACE, POLYANET } }
  \cup { GoalX }

Bodies == { [goal |-> g] : g \in Goals } \cup { [message |-> "error"] }

InitialGrids ==
  { EmptyGrid,
    PoolA :> Entity(polyanets, None, None),
    PoolB :> Entity(comeths, right, None),
    (PoolA :> Entity(soloons, None, blue)) @@ (PoolB :> Entity(comeths, right, None)) }

(* HTTP answers: a status code, or a requests.RequestException *)
Answer(code) == [raised |-> FALSE, status_code |-> code]
Raised == [raised |-> TRUE, status_code |-> 0]
Unanswered == [raised |-> FALSE, status_code |-> 0]
GetAnswers == { Answer(200), Answer(500), Raised }
DeleteAnswers == { Answer(200), Answer(404), Answer(500), Raised }
PostAnswers == { Answer(201), Answer(429), Answer(500), Raised }

-----------------------------------------------------------------------------
(* The remote service *)

\* the answer a truthful service gives to DELETE /<kind> for coord
TruthfulDelete(g, kind, coord) ==
  IF coord \in DOMAIN g /\ g[coord].kind = kind THEN Answer(200) ELSE Answer(404)

\* a 200 removes the entity of that kind at coord, if there is one
AfterDelete(g, kind, coord, r) ==
  IF ~r.raised /\ r.status_code = 200 /\ coord \in DOMAIN g /\ g[coord].kind = kind
  THEN Remove(g, coord) ELSE g

\* a 201 creates the entity the request describes at its coordinate
AfterPost(g, c, r) ==
  IF ~r.raised /\ r.status_code = 201
  THEN Put(g, << c.payload.row, c.payload.column >>,
           Entity(c.endpoint,
                  IF "direction" \in DOMAIN c.payload THEN c.payload.direction ELSE None,
                  IF "color" \in DOMAIN c.payload THEN c.payload.color ELSE None))
  ELSE g

KnownKind(k) == \E j \in 1..Len(endpoints) : endpoints[j] = k

-----------------------------------------------------------------------------
(* CrossmintAPI *)

\* (mutation) a 404 counts as a deletion too
delete_counts_not_found(r) == ~r.raised /\ r.status_code \in { 200, 404 }

\* delete_object: the answer counts as a deletion
delete_counts(r) == ~r.raised /\ r.status_code = 200

\* (mutation) the loop stops at the first endpoint that deleted something
more_endpoints_until_deleted(k, r) == k < Len(endpoints) /\ ~delete_counts(r)

\* delete_object: the for loop goes on to the next endpoint
more_endpoints(k, r) == k < Len(endpoints)

\* (mutation) the color never reaches the payload
place_entity_drops_color(entity_type, r, c, direction, color) ==
  LET base == [candidateId |-> CANDIDATE_ID, row |-> r, column |-> c]
      payload == IF direction # None
                 THEN base @@ ("direction" :> direction) ELSE base
  IN  [entity_type |-> entity_type, row |-> r, col |-> c,
       direction |-> direction, color |-> color,
       endpoint |-> lower(entity_type), payload |-> payload]

\* place_entity: endpoint and payload
place_entity(entity_type, r, c, direction, color) ==
  LET base == [candidateId |-> CANDIDATE_ID, row |-> r, column |-> c]
      withDirection == IF direction # None
                       THEN base @@ ("direction" :> direction) ELSE base
      payload == IF color # None
                 THEN withDirection @@ ("color" :> color) ELSE withDirection
  IN  [entity_type |-> entity_type, row |-> r, col |-> c,
       direction |-> direction, color |-> color,
       endpoint |-> lower(entity_type), payload |-> payload]

\* (mutation) an error status is retried like a 429
place_retries_on_error(r) == ~r.raised /\ r.status_code \in { 429, 500 }

\* (mutation) a request that raised is sent again
place_retries_on_exception(r) == r.raised \/ r.status_code = 429

\* place_entity: the while loop sends the POST again
place_retries(r) == ~r.raised /\ r.status_code = 429

\* (mutation) the body is returned whatever the status code
fetch_goal_map_any_status(r, body) == IF ~r.raised THEN body ELSE None

\* (mutation) a RequestException is not caught: the script ends with it
after_post_uncaught(r) ==
  IF r.raised THEN "done"
  ELSE IF place_retries(r) THEN "post" ELSE "post_ret"

\* place_entity: after an answer the while loop sends the POST again, or the
\* call returns (break on 201, on any other status, and in the except clause)
after_post(r) == IF place_retries(r) THEN "post" ELSE "post_ret"

\* fetch_goal_map
fetch_goal_map(r, body) == IF ~r.raised /\ r.status_code = 200 THEN body ELSE None

-----------------------------------------------------------------------------
(* Phase1Pattern, Phase2Pattern, delete_all, detect_phase *)

NoCall == [entity_type |-> None]
IsCall(c) == c.entity_type # None

\* (mutation) range(2, grid_size - 1)
phase1_range_long(n) == 2..(n - 2)

\* Phase1Pattern.execute: range(2, grid_size - 2)
phase1_range(n) == 2..(n - 3)

\* (mutation) the anti-diagonal is taken one column to the right
phase1_call_shifted(n, k, which) ==
  IF which = 1 THEN place_entity(polyanets, k, k, None, None)
  ELSE place_entity(polyanets, k, n - k, None, None)

\* Phase1Pattern.execute: the two calls of iteration k
phase1_call(n, k, which) ==
  IF which = 1 THEN place_entity(polyanets, k, k, None, None)
  ELSE place_entity(polyanets, k, n - 1 - k, None, None)

\* (mutation) the attribute is not lowercased
phase2_call_keeps_case(cell, r, c) ==
  IF cell = SPACE THEN NoCall
  ELSE IF startswith(cell, POLYANET) THEN place_entity(polyanets, r, c, None, None)
  ELSE IF endswith(cell, COMETH)
       THEN place_entity(comeths, r, c, split_first(cell), None)
  ELSE IF endswith(cell, SOLOON)
       THEN place_entity(soloons, r, c, None, split_first(cell))
  ELSE NoCall

\* Phase2Pattern.execute: the call made for one cell, NoCall when none is made
phase2_call(cell, r, c) ==
  IF cell = SPACE THEN NoCall
  ELSE IF startswith(cell, POLYANET) THEN place_entity(polyanets, r, c, None, None)
  ELSE IF endswith(cell, COMETH)
       THEN place_entity(comeths, r, c, lower(split_first(cell)), None)
  ELSE IF endswith(cell, SOLOON)
       THEN place_entity(soloons, r, c, None, lower(split_first(cell)))
  ELSE NoCall

\* (mutation) the loop does not move past the cell it has just handled
phase2_after_same_cell(goal, k) ==
  LET n == len(goal)
  IN  { j \in k..(n * n - 1) :
          j >= 0 /\ IsCall(phase2_call(Cell(goal, j \div n, j % n), j \div n, j % n)) }

\* Phase2Pattern.execute: row-major indices after k of the cells that get a call
phase2_after(goal, k) ==
  LET n == len(goal)
  IN  { j \in (k + 1)..(n * n - 1) :
          IsCall(phase2_call(Cell(goal, j \div n, j % n), j \div n, j % n)) }

\* (mutation) the all-SPACE shortcut is never taken
any_entities_always(goal) == TRUE

\* delete_all: any(cell != "SPACE" for row in goal_map["goal"] for cell in row)
any_entities(goal) ==
  \E r \in 0..(len(goal) - 1) : \E c \in 0..(len(goal) - 1) : Cell(goal, r, c) # SPACE

\* (mutation) every coordinate is probed
should_probe_every(goal, r, c) == TRUE

\* delete_all: the coordinate is probed
should_probe(goal, r, c) == Cell(goal, r, c) # SPACE

\* delete_all: row-major indices after k of the coordinates a round probes
probe_after(goal, n, k) ==
  { j \in (k + 1)..(n * n - 1) : should_probe(goal, j \div n, j % n) }

\* delete_all: while attempt < max_attempts
attempts_left(a) == a < max_attempts

\* (mutation) the break is missing
round_never_breaks(deleted) == FALSE

\* delete_all: if not any_deleted: break
round_breaks(deleted) == ~deleted

\* (mutation) an unknown size is taken for phase 1
detect_phase_default_1(n) ==
  IF n = PHASE_2_GRID_SIZE THEN {2} ELSE {1}

\* (mutation) the two phases are swapped
detect_phase_swapped(n) ==
  IF n = PHASE_1_GRID_SIZE THEN {2}
  ELSE IF n = PHASE_2_GRID_SIZE THEN {1}
  ELSE {}

detect_phase(n) ==
  IF n = PHASE_1_GRID_SIZE THEN {1}
  ELSE IF n = PHASE_2_GRID_SIZE THEN {2}
  ELSE {}

-----------------------------------------------------------------------------
(* The script *)

fetchV == << goal_map, grid_size, phase, anyGet, gets, getAnswer >>
clearV == << attempt, any_deleted, row, col, rounds, roundsDeleting, round200,
            probes, outcome >>
deleteV == << ep, deleted_any, sent, got200, gotError, anyDelete, deleteFaults,
             truthful >>
patternV == << i, leg, row_idx, col_idx, strategy, execs, call, placements >>
postV == << posts, n429, anyPost, placeFaults, all201, retry429, abandoned >>

Init ==
  /\ pc = "fetch"
  /\ goal_map = None
  /\ grid_size = 0
  /\ phase = {}
  /\ grid0 \in InitialGrids
  /\ grid = grid0
  /\ attempt = 0 /\ any_deleted = FALSE /\ row = 0 /\ col = 0
  /\ ep = 1 /\ deleted_any = FALSE
  /\ i = 0 /\ leg = 1 /\ row_idx = 0 /\ col_idx = 0
  /\ call = NoCall
  /\ strategy = "none" /\ execs = 0
  /\ rounds = 0 /\ roundsDeleting = 0 /\ round200 = FALSE
  /\ probes = EmptyGrid /\ sent = << >> /\ got200 = FALSE /\ gotError = FALSE
  /\ posts = 0 /\ n429 = 0
  /\ placements = << >>
  /\ anyGet = FALSE /\ anyDelete = FALSE /\ anyPost = FALSE
  /\ gets = 0 /\ getAnswer = Unanswered
  /\ retry429 = 0 /\ abandoned = {}
  /\ outcome = "none"
  /\ deleteFaults = 0 /\ truthful = TRUE /\ placeFaults = 0 /\ all201 = TRUE

\* goal_map = api.fetch_goal_map()
Fetch ==
  /\ pc = "fetch"
  /\ \E r \in GetAnswers : \E body \in Bodies :
       /\ goal_map' = fetch_goal_map(r, body)
       /\ getAnswer' = r
  /\ anyGet' = TRUE
  /\ gets' = gets + 1
  /\ pc' = "detect"
  /\ UNCHANGED << grid_size, phase, grid, grid0, clearV, deleteV, patternV, postV >>

\* if goal_map and "goal" in goal_map: ... phase = detect_phase(grid_size)
Detect ==
  /\ pc = "detect"
  /\ IF DOMAIN goal_map # {} /\ "goal" \in DOMAIN goal_map
     THEN /\ grid_size' = len(goal_map.goal)
          /\ phase' = detect_phase(grid_size')
          /\ pc' = IF phase' = {} THEN "done" ELSE "clear"
     ELSE /\ pc' = "done"
          /\ UNCHANGED << grid_size, phase >>
  /\ UNCHANGED << goal_map, anyGet, gets, getAnswer, grid, grid0, clearV, deleteV,
                  patternV, postV >>

\* delete_all: a round starts, or the while loop is left
BeginRound(a) ==
  IF attempts_left(a)
  THEN LET first == probe_after(goal_map.goal, grid_size, -1)
       IN  /\ any_deleted' = FALSE
           /\ probes' = EmptyGrid
           /\ round200' = FALSE
           /\ outcome' = outcome
           /\ IF first = {}
              THEN /\ pc' = "round_end"
                   /\ UNCHANGED << row, col >>
              ELSE /\ pc' = "delete"
                   /\ row' = Min(first) \div grid_size
                   /\ col' = Min(first) % grid_size
  ELSE /\ outcome' = IF a = max_attempts THEN "max" ELSE outcome
       /\ pc' = "dispatch"
       /\ UNCHANGED << any_deleted, probes, round200, row, col >>

\* delete_all(api, grid_size, goal_map), up to the first round
DeleteAll ==
  /\ pc = "clear"
  /\ IF ~any_entities(goal_map.goal)
     THEN /\ outcome' = "skipped"
          /\ pc' = "dispatch"
          /\ UNCHANGED << attempt, any_deleted, row, col, probes, round200 >>
     ELSE /\ attempt' = 0
          /\ BeginRound(0)
  /\ UNCHANGED << rounds, roundsDeleting, fetchV, grid, grid0, deleteV, patternV, postV >>

\* delete_object: one requests.delete and what the loop does with its answer
DeleteCall ==
  /\ pc = "delete"
  /\ \E r \in DeleteAnswers :
       LET kind == endpoints[ep]
           honest == r = TruthfulDelete(grid, kind, << row, col >>)
       IN  /\ honest \/ deleteFaults < MaxDeleteFaults
           /\ deleteFaults' = IF honest THEN deleteFaults ELSE deleteFaults + 1
           /\ grid' = AfterDelete(grid, kind, << row, col >>, r)
           /\ truthful' = (truthful /\ honest)
           /\ sent' = Append(sent, kind)
           /\ got200' = (got200 \/ (~r.raised /\ r.status_code = 200))
           /\ round200' = (round200 \/ (~r.raised /\ r.status_code = 200))
           /\ gotError' = (gotError \/ r.raised \/ r.status_code \notin { 200, 404 })
           /\ deleted_any' = (deleted_any \/ delete_counts(r))
           /\ IF more_endpoints(ep, r)
              THEN /\ ep' = ep + 1
                   /\ pc' = "delete"
              ELSE /\ ep' = ep
                   /\ pc' = "delete_ret"
  /\ anyDelete' = TRUE
  /\ UNCHANGED << fetchV, grid0, attempt, any_deleted, row, col, rounds, roundsDeleting,
                  probes, outcome, patternV, postV >>

\* delete_all: if api.delete_object(row, col): any_deleted = True; next coordinate
DeleteReturn ==
  /\ pc = "delete_ret"
  /\ any_deleted' = (any_deleted \/ deleted_any)
  /\ probes' = Put(probes, << row, col >>,
                   IF << row, col >> \in DOMAIN probes
                   THEN probes[<< row, col >>] + 1 ELSE 1)
  /\ ep' = 1 /\ deleted_any' = FALSE /\ sent' = << >> /\ got200' = FALSE
  /\ gotError' = FALSE
  /\ LET rest == probe_after(goal_map.goal, grid_size, row * grid_size + col)
     IN  IF rest = {}
         THEN /\ pc' = "round_end"
              /\ UNCHANGED << row, col >>
         ELSE /\ pc' = "delete"
              /\ row' = Min(rest) \div grid_size
              /\ col' = Min(rest) % grid_size
  /\ UNCHANGED << attempt, rounds, roundsDeleting, round200, outcome, anyDelete,
                  deleteFaults, truthful, fetchV, grid, grid0, patternV, postV >>

\* delete_all: the end of a round
RoundEnd ==
  /\ pc = "round_end"
  /\ rounds' = rounds + 1
  /\ roundsDeleting' = IF round200 THEN roundsDeleting + 1 ELSE roundsDeleting
  /\ IF round_breaks(any_deleted)
     THEN /\ outcome' = IF attempt = max_attempts THEN "max" ELSE "clear"
          /\ pc' = "dispatch"
          /\ UNCHANGED << attempt, any_deleted, probes, round200, row, col >>
     ELSE /\ attempt' = attempt + 1
          /\ BeginRound(attempt + 1)
  /\ UNCHANGED << fetchV, grid, grid0, deleteV, patternV, postV >>

\* a place_entity call begins
StartCall(c) ==
  /\ call' = c
  /\ placements' = Append(placements, c)
  /\ posts' = 0 /\ n429' = 0
  /\ pc' = "post"

\* (mutation) delete_all is called after the pattern has been executed
Finish_then_delete_all ==
  /\ call' = NoCall
  /\ pc' = "clear"
  /\ UNCHANGED << placements, posts, n429 >>

\* execute() has no further call to make
Finish ==
  /\ call' = NoCall
  /\ pc' = "done"
  /\ UNCHANGED << placements, posts, n429 >>

\* Phase1Pattern(api, grid_size).execute(), up to its first call
Execute1 ==
  /\ UNCHANGED << row_idx, col_idx >>
  /\ IF phase1_range(grid_size) = {}
     THEN Finish /\ UNCHANGED << i, leg >>
     ELSE /\ i' = Min(phase1_range(grid_size))
          /\ leg' = 1
          /\ StartCall(phase1_call(grid_size, Min(phase1_range(grid_size)), 1))

\* Phase2Pattern(api, goal_map).execute(), up to its first call
Execute2 ==
  /\ UNCHANGED << i, leg >>
  /\ LET goal == goal_map.goal
         rest == phase2_after(goal, -1)
     IN  IF rest = {}
         THEN Finish /\ UNCHANGED << row_idx, col_idx >>
         ELSE /\ row_idx' = Min(rest) \div len(goal)
              /\ col_idx' = Min(rest) % len(goal)
              /\ StartCall(phase2_call(Cell(goal, row_idx', col_idx'), row_idx', col_idx'))

\* if phase == 1: Phase1Pattern(...).execute() elif phase == 2: Phase2Pattern(...).execute()
\* (delete_all has returned: its locals and the counts of its rounds are dropped)
Dispatch ==
  /\ pc = "dispatch"
  /\ execs' = execs + 1
  /\ IF phase = {1}
     THEN strategy' = "Phase1Pattern" /\ Execute1
     ELSE IF phase = {2}
     THEN strategy' = "Phase2Pattern" /\ Execute2
     ELSE /\ strategy' = strategy
          /\ Finish
          /\ UNCHANGED << i, leg, row_idx, col_idx >>
  /\ attempt' = 0 /\ any_deleted' = FALSE /\ row' = 0 /\ col' = 0
  /\ rounds' = 0 /\ roundsDeleting' = 0 /\ round200' = FALSE
  /\ probes' = EmptyGrid /\ deleteFaults' = 0
  /\ UNCHANGED << fetchV, grid, grid0, outcome, ep, deleted_any, sent, got200,
                  gotError, anyDelete, truthful, anyPost, placeFaults, all201,
                  retry429, abandoned >>

\* place_entity: one requests.post and what the while loop does with its answer
PostCall ==
  /\ pc = "post"
  /\ \E r \in PostAnswers :
       LET created == ~r.raised /\ r.status_code = 201
           limited == ~r.raised /\ r.status_code = 429
       IN  /\ created => KnownKind(call.endpoint)
           /\ limited => n429 < MaxRetries
           /\ (~created /\ ~limited) => placeFaults < MaxPlaceFaults
           /\ grid' = AfterPost(grid, call, r)
           /\ posts' = posts + 1
           /\ n429' = IF limited THEN n429 + 1 ELSE n429
           /\ placeFaults' = IF created \/ limited THEN placeFaults ELSE placeFaults + 1
           /\ all201' = (all201 /\ created)
           /\ retry429' = IF limited THEN 1 ELSE 0
           /\ abandoned' = IF created \/ after_post(r) = "post" THEN abandoned
                            ELSE abandoned \cup {<< call.row, call.col >>}
           /\ pc' = after_post(r)
  /\ anyPost' = TRUE
  /\ UNCHANGED << fetchV, grid0, clearV, deleteV, patternV >>

\* place_entity has returned: the pattern's loop goes on
PostReturn ==
  /\ pc = "post_ret"
  /\ IF strategy = "Phase1Pattern"
     THEN /\ UNCHANGED << row_idx, col_idx >>
          /\ IF leg = 1
             THEN /\ leg' = 2 /\ i' = i
                  /\ StartCall(phase1_call(grid_size, i, 2))
             ELSE IF (i + 1) \in phase1_range(grid_size)
             THEN /\ leg' = 1 /\ i' = i + 1
                  /\ StartCall(phase1_call(grid_size, i + 1, 1))
             ELSE Finish /\ UNCHANGED << i, leg >>
     ELSE /\ UNCHANGED << i, leg >>
          /\ LET goal == goal_map.goal
                 rest == phase2_after(goal, row_idx * len(goal) + col_idx)
             IN  IF rest = {}
                 THEN Finish /\ UNCHANGED << row_idx, col_idx >>
                 ELSE /\ row_idx' = Min(rest) \div len(goal)
                      /\ col_idx' = Min(rest) % len(goal)
                      /\ StartCall(phase2_call(Cell(goal, row_idx', col_idx'),
                                               row_idx', col_idx'))
  /\ UNCHANGED << strategy, execs, fetchV, grid, grid0, clearV, deleteV,
                  anyPost, placeFaults, all201, retry429, abandoned >>

Next ==
  \/ Fetch
  \/ Detect
  \/ DeleteAll
  \/ DeleteCall
  \/ DeleteReturn
  \/ RoundEnd
  \/ Dispatch
  \/ PostCall
  \/ PostReturn

Spec == Init /\ [][Next]_vars

-----------------------------------------------------------------------------
(* The run against a service that may answer 429 to a POST without end.     *)
(* posts and n429 count the first MaxRetries 429s of a call; the answers    *)
(* after them only turn retry429.                                           *)

\* place_entity: elif response.status_code == 429: time.sleep(5), and the
\* while loop sends the same POST again
PostLimitedAgain ==
  /\ pc = "post"
  /\ n429 = MaxRetries
  /\ retry429' = IF retry429 = 1 THEN 2 ELSE 1
  /\ pc' = after_post(Answer(429))
  /\ anyPost' = TRUE
  /\ all201' = FALSE
  /\ UNCHANGED << fetchV, grid, grid0, clearV, deleteV, patternV,
                  posts, n429, placeFaults, abandoned >>

\* the goal maps this specification fetches: one of each kind of run
LiveMaps ==
  { None, [message |-> "error"], [goal |-> GoalX],
    [goal |-> MkGoal(PHASE_2_GRID_SIZE, POLYANET, RED_SOLOON)],
    [goal |-> MkGoal(OtherSize, POLYANET, SPACE)] }

FetchLive == Fetch /\ goal_map' \in LiveMaps

NextLive ==
  \/ FetchLive
  \/ Detect
  \/ DeleteAll
  \/ DeleteCall
  \/ DeleteReturn
  \/ RoundEnd
  \/ Dispatch
  \/ PostCall
  \/ PostReturn
  \/ PostLimitedAgain

\* The script is one thread that always takes its next step, and every
\* request it sends returns or raises.
SpecLive == Init /\ [][NextLive]_vars /\ WF_vars(NextLive)

-----------------------------------------------------------------------------
(* The goal-map-driven pattern run, once or repeatedly, against a remote    *)
(* grid that already holds what the goal map names.                         *)

\* the entity a goal-map label names
GoalEntity(label) ==
  IF label = POLYANET THEN Entity(polyanets, None, None)
  ELSE IF label = BLUE_SOLOON THEN Entity(soloons, None, blue)
  ELSE IF label = RED_SOLOON THEN Entity(soloons, None, red)
  ELSE IF label = RIGHT_COMETH THEN Entity(comeths, right, None)
  ELSE Entity(comeths, up, None)

\* the coordinates whose goal-map cell is not SPACE (a cell that `cells`
\* does not list is SPACE)
NonSpaceCoords(goal) ==
  { x \in DOMAIN goal.cells :
      /\ x[1] \in 0..(goal.size - 1) /\ x[2] \in 0..(goal.size - 1)
      /\ goal.cells[x] # SPACE }

\* the grid in which each coordinate holds what its goal-map cell names
GoalGrid(goal) ==
  [x \in NonSpaceCoords(goal) |-> GoalEntity(Cell(goal, x[1], x[2]))]

InitMatching ==
  /\ pc = "dispatch"
  /\ \E body \in Bodies :
       /\ "goal" \in DOMAIN body
       /\ len(body.goal) = PHASE_2_GRID_SIZE
       /\ goal_map = body
  /\ grid_size = len(goal_map.goal)
  /\ phase = detect_phase(grid_size)
  /\ grid0 = GoalGrid(goal_map.goal)
  /\ grid = grid0
  /\ attempt = 0 /\ any_deleted = FALSE /\ row = 0 /\ col = 0
  /\ ep = 1 /\ deleted_any = FALSE
  /\ i = 0 /\ leg = 1 /\ row_idx = 0 /\ col_idx = 0
  /\ call = NoCall
  /\ strategy = "none" /\ execs = 0
  /\ rounds = 0 /\ roundsDeleting = 0 /\ round200 = FALSE
  /\ probes = EmptyGrid /\ sent = << >> /\ got200 = FALSE /\ gotError = FALSE
  /\ posts = 0 /\ n429 = 0
  /\ placements = << >>
  /\ anyGet = TRUE /\ anyDelete = FALSE /\ anyPost = FALSE
  /\ gets = 1 /\ getAnswer = Answer(200)
  /\ retry429 = 0 /\ abandoned = {}
  /\ outcome = "none"
  /\ deleteFaults = 0 /\ truthful = TRUE /\ placeFaults = 0 /\ all201 = TRUE

\* execute() is invoked once more on the same pattern object
ExecuteAgain ==
  /\ pc = "done"
  /\ strategy = "Phase2Pattern"
  /\ execs < MaxExecs
  /\ execs' = execs + 1
  /\ Execute2
  /\ UNCHANGED << strategy, fetchV, grid, grid0, clearV, deleteV,
                  anyPost, placeFaults, all201, retry429, abandoned >>

NextMatching ==
  \/ Dispatch
  \/ PostCall
  \/ PostReturn
  \/ ExecuteAgain

SpecMatching == InitMatching /\ [][NextMatching]_vars

-----------------------------------------------------------------------------
(* Properties *)

HasGoal == DOMAIN goal_map # {} /\ "goal" \in DOMAIN goal_map

InClear == pc \in { "delete", "delete_ret", "round_end" }

\* C1: when the run of a supported goal map (size 11 or 30) has completed and
\* every DELETE was answered truthfully and every POST with 201, each
\* coordinate of the remote grid holds exactly the entity its goal-map cell
\* names and every SPACE coordinate is empty.
C1_RunReconcilesGrid ==
  (pc = "done" /\ HasGoal /\ execs = 1 /\ truthful /\ all201)
    => grid = GoalGrid(goal_map.goal)

\* C2: in every round of delete_all each non-SPACE coordinate gets exactly one
\* delete_object call; a further round is run only while every round so far
\* had a DELETE answered 200 and fewer than max_attempts rounds have run;
\* delete_all ends with "clear" after the first round without a 200 and with
\* "max" after max_attempts rounds that all had one; rounds never exceed
\* max_attempts.
C2_RoundsOfDeleteAll ==
  /\ rounds <= max_attempts
  /\ InClear => (roundsDeleting = rounds /\ rounds < max_attempts)
  /\ pc = "round_end" =>
       /\ DOMAIN probes = NonSpaceCoords(goal_map.goal)
       /\ \A x \in DOMAIN probes : probes[x] = 1
  /\ (pc = "dispatch" /\ outcome = "clear") =>
       (rounds = roundsDeleting + 1 /\ ~round200)
  /\ (pc = "dispatch" /\ outcome = "max") =>
       (rounds = max_attempts /\ roundsDeleting = max_attempts)
  /\ (pc = "dispatch" /\ NonSpaceCoords(goal_map.goal) # {}) =>
       outcome \in { "clear", "max" }

C2_MaxAttemptsReached ==
  pc = "dispatch" /\ outcome = "max" /\ rounds = max_attempts

\* C3: for a goal map whose cells are all SPACE, delete_all sends no DELETE,
\* runs no round and returns with "skipped".
C3_AllSpaceSkipsDeletion ==
  (phase # {} /\ NonSpaceCoords(goal_map.goal) = {}) =>
    /\ ~anyDelete
    /\ ~InClear
    /\ rounds = 0
    /\ pc # "clear" => outcome = "skipped"

C3_SkippedAllSpace ==
  /\ pc = "dispatch" /\ outcome = "skipped"
  /\ NonSpaceCoords(goal_map.goal) = {}
  /\ grid # EmptyGrid

\* C4: while a place_entity call is in progress every POST it sent was
\* answered 429, and when it returns it has sent exactly one POST more than
\* it received 429 answers.
C4_PostsAreOnePlus429s ==
  /\ pc = "post" => posts = n429
  /\ pc = "post_ret" => posts = n429 + 1

C4_ReturnedAfterRetry == pc = "post_ret" /\ n429 >= 1 /\ posts = n429 + 1

\* C5: a delete_object call sends exactly one DELETE to each of polyanets,
\* soloons, comeths, in that order and whatever the answers, and returns
\* true iff one of them was answered 200.
C5_DeleteObjectTriesAllKinds ==
  /\ pc = "delete" => (ep <= Len(endpoints) /\ sent = SubSeq(endpoints, 1, ep - 1))
  /\ pc = "delete_ret" => (sent = endpoints /\ (deleted_any <=> got200))

C5_DeletedDespiteFailure ==
  pc = "delete_ret" /\ sent = endpoints /\ deleted_any /\ gotError

CallsAt(x) ==
  { k \in 1..Len(placements) : placements[k].row = x[1] /\ placements[k].col = x[2] }

\* the request of place_entity call c creates exactly entity e
Requests(c, e) ==
  /\ c.endpoint = e.kind
  /\ c.payload.row = c.row /\ c.payload.column = c.col
  /\ ("direction" \in DOMAIN c.payload) <=> (e.direction # None)
  /\ ("direction" \in DOMAIN c.payload) => c.payload.direction = e.direction
  /\ ("color" \in DOMAIN c.payload) <=> (e.color # None)
  /\ ("color" \in DOMAIN c.payload) => c.payload.color = e.color

\* C6: when Phase2Pattern.execute has run, every "<COLOR>_SOLOON" cell got
\* exactly one place_entity call, to soloons with color the lowercased prefix
\* and no direction; every "<DIR>_COMETH" cell exactly one, to comeths with
\* direction the lowercased prefix and no color; every "POLYANET" cell
\* exactly one, to polyanets with neither field.
C6_LabelsMapToPlacements ==
  (pc = "done" /\ strategy = "Phase2Pattern" /\ execs = 1) =>
    \A x \in NonSpaceCoords(goal_map.goal) :
      /\ Cardinality(CallsAt(x)) = 1
      /\ \A k \in CallsAt(x) :
           Requests(placements[k], GoalEntity(Cell(goal_map.goal, x[1], x[2])))

C6_SoloonAndComethPlaced ==
  /\ pc = "done" /\ strategy = "Phase2Pattern"
  /\ Cell(goal_map.goal, PoolA[1], PoolA[2]) = BLUE_SOLOON
  /\ Cell(goal_map.goal, PoolB[1], PoolB[2]) = UP_COMETH
  /\ Len(placements) = 2

\* C7: for grid size 11 Phase1Pattern.execute makes exactly 14 place_entity
\* calls, all to polyanets without attribute: for i = 2..8 one at (i, i)
\* followed by one at (i, 10 - i); the targets are symmetric about the
\* vertical midline and none lies within 2 of a border.
C7_SyntheticPatternCalls ==
  (pc = "done" /\ strategy = "Phase1Pattern" /\ grid_size = 11) =>
    /\ Len(placements) = 14
    /\ \A k \in 1..Len(placements) :
         LET c == placements[k]
             ii == 2 + ((k - 1) \div 2)
         IN  /\ c.row = ii
             /\ c.col = IF k % 2 = 1 THEN ii ELSE 10 - ii
             /\ Requests(c, Entity(polyanets, None, None))
             /\ c.row \in 2..8 /\ c.col \in 2..8
             /\ \E j \in 1..Len(placements) :
                  placements[j].row = c.row /\ placements[j].col = 10 - c.col

C7_SyntheticPatternDone ==
  /\ pc = "done" /\ strategy = "Phase1Pattern" /\ grid_size = 11
  /\ Len(placements) = 14

\* C8: when the fetched goal map has a size other than 11 or 30, no DELETE
\* and no POST is ever sent, the script stops after phase detection and the
\* remote grid stays as it was.
C8_UnknownSizeAborts ==
  (HasGoal /\ len(goal_map.goal) \notin { 11, 30 }) =>
    /\ ~anyDelete /\ ~anyPost
    /\ grid = grid0
    /\ pc \in { "detect", "done" }
    /\ placements = << >>

C8_AbortedWithWorkLeft ==
  /\ pc = "done" /\ HasGoal
  /\ len(goal_map.goal) \notin { 11, 30 }
  /\ NonSpaceCoords(goal_map.goal) # {}
  /\ grid # EmptyGrid

OnDiagonals(c) ==
  /\ c.endpoint = polyanets
  /\ c.col = c.row \/ c.col = grid_size - 1 - c.row

\* C9: after detection phase is 1 for grid size 11, 2 for grid size 30 and
\* None for any other size; phase 1 executes only Phase1Pattern, whose calls
\* lie on the two diagonals whatever the goal map says, and phase 2 executes
\* only Phase2Pattern, whose calls are at non-SPACE cells of the goal map.
C9_PhaseSelectsStrategy ==
  /\ (HasGoal /\ pc \notin { "fetch", "detect" }) =>
       /\ grid_size = 11 => phase = {1}
       /\ grid_size = 30 => phase = {2}
       /\ grid_size \notin { 11, 30 } => phase = {}
  /\ strategy = "Phase1Pattern" <=> (execs >= 1 /\ phase = {1})
  /\ strategy = "Phase2Pattern" <=> (execs >= 1 /\ phase = {2})
  /\ phase = {1} => \A k \in 1..Len(placements) : OnDiagonals(placements[k])
  /\ phase = {2} => \A k \in 1..Len(placements) :
       Cell(goal_map.goal, placements[k].row, placements[k].col) # SPACE
  /\ (pc = "done" /\ phase = {2}) =>
       Len(placements) = Cardinality(NonSpaceCoords(goal_map.goal))

C9_SyntheticDespiteGoal ==
  /\ pc = "done" /\ phase = {1} /\ strategy = "Phase1Pattern"
  /\ Cell(goal_map.goal, PoolB[1], PoolB[2]) = UP_COMETH
  /\ Len(placements) > 1

\* C10: Phase2Pattern.execute, run once or repeatedly against a remote grid
\* that holds what the goal map names, leaves the grid as it was, whatever
\* the service answers, while sending a POST for every non-SPACE cell.
C10_PatternIsIdempotent ==
  /\ grid = GoalGrid(goal_map.goal)
  /\ grid = grid0

C10_RanTwice ==
  /\ pc = "done" /\ execs = 2 /\ all201
  /\ Len(placements) = 2 * Cardinality(NonSpaceCoords(goal_map.goal))
  /\ Len(placements) = 4

\* C11: the goal map is fetched with exactly one GET, never sent again; when
\* that GET is answered with a status other than 200 or raises, the result is
\* None and the run sends no DELETE and no POST and leaves the grid as it was.
C11_FetchOnceThenAbort ==
  /\ gets <= 1
  /\ pc # "fetch" => gets = 1
  /\ (gets = 1 /\ (getAnswer.raised \/ getAnswer.status_code # 200)) =>
       /\ DOMAIN goal_map = {}
       /\ ~anyDelete /\ ~anyPost
       /\ pc \in {"detect", "done"}
       /\ grid = grid0

C11_AbortedOnStatus500 ==
  /\ pc = "done" /\ gets = 1
  /\ getAnswer = Answer(500)
  /\ grid # EmptyGrid

\* C12: when delete_all ends because a round deleted nothing ("Grid is
\* clear"), no entity is left at a coordinate whose goal cell is not SPACE,
\* whatever the service answered to the DELETEs.
C12_ClearMeansNoEntityLeft ==
  (pc = "dispatch" /\ outcome = "clear") =>
    \A x \in NonSpaceCoords(goal_map.goal) : x \notin DOMAIN grid

\* C13: the run ends unless the service answers 429 to one placement for
\* ever: every behaviour reaches the end of the script or stays for ever in
\* the retry loop of one place_entity call whose last answer was a 429; and
\* as long as the loop goes on it is the same call, no other coordinate is
\* reached.
C13_TerminatesUnless429Forever ==
  /\ <>(pc = "done") \/ <>[](pc = "post" /\ retry429 > 0)
  /\ [][(pc = "post" /\ pc' = "post") =>
          (retry429' > 0 /\ call' = call /\ placements' = placements)]_vars

C13_StillAnswered429 ==
  /\ pc = "post" /\ retry429 = 2
  /\ n429 = MaxRetries /\ posts = n429

\* C14: the GET of the goal map comes before every other request and every
\* DELETE before every POST: once a POST has been sent the script is never
\* again inside delete_all, no DELETE follows, and no entity on the grid is
\* removed from then on.
C14_FetchThenDeletesThenPosts ==
  /\ []((anyDelete \/ anyPost) => anyGet)
  /\ [](pc = "fetch" => (~anyGet /\ ~anyDelete /\ ~anyPost))
  /\ [](anyPost => pc \in {"post", "post_ret", "done"})
  /\ [](pc \in {"clear", "delete", "delete_ret", "round_end"} => ~anyPost)
  /\ [][anyPost => (/\ pc' # "delete"
                    /\ sent' = sent
                    /\ DOMAIN grid \subseteq DOMAIN grid')]_vars

C14_PlacedAfterDeleting ==
  /\ pc = "done" /\ anyDelete /\ anyPost
  /\ DOMAIN grid0 # {} /\ DOMAIN grid0 \cap DOMAIN grid = {}
  /\ grid # EmptyGrid

RowMajor(k, n) == placements[k].row * n + placements[k].col

\* C17: the goal-map-driven pattern calls place_entity in row-major order:
\* the calls made so far are at strictly increasing row-major positions, each
\* at a cell that is not SPACE and not beyond the cell being visited, and when
\* execute() ends every non-SPACE cell has had exactly one call.
C17_RowMajorOncePerLabelledCell ==
  (strategy = "Phase2Pattern" /\ execs = 1) =>
    LET goal == goal_map.goal
        n == len(goal)
    IN  /\ \A k \in 1..Len(placements) :
             /\ Cell(goal, placements[k].row, placements[k].col) # SPACE
             /\ k > 1 => RowMajor(k - 1, n) < RowMajor(k, n)
             /\ pc # "done" => RowMajor(k, n) <= row_idx * n + col_idx
        /\ pc = "done" =>
             { << placements[k].row, placements[k].col >> : k \in 1..Len(placements) }
               = NonSpaceCoords(goal)

C17_TwoCellsInOrder ==
  /\ pc = "done" /\ strategy = "Phase2Pattern" /\ execs = 1
  /\ Len(placements) = 2
  /\ << placements[1].row, placements[1].col >> = PoolB
  /\ << placements[2].row, placements[2].col >> = PoolA

\* C18: when every DELETE is answered truthfully and nothing else writes to
\* the grid, delete_all runs at most two rounds: at the end of the first no
\* entity is left at a non-SPACE coordinate, the second gets no 200, and
\* delete_all never ends with "Max attempts reached".
C18_TwoRoundsWhenTruthful ==
  (truthful /\ HasGoal /\ ~anyPost) =>
    /\ rounds <= 2
    /\ roundsDeleting <= 1
    /\ (pc = "round_end" \/ rounds >= 1) =>
         \A x \in NonSpaceCoords(goal_map.goal) : x \notin DOMAIN grid
    /\ (rounds = 1 /\ pc \in {"delete", "delete_ret", "round_end"}) => ~round200
    /\ outcome # "max"

C18_SecondRoundFoundNothing ==
  /\ truthful /\ pc = "dispatch" /\ outcome = "clear"
  /\ rounds = 2 /\ roundsDeleting = 1
  /\ Cardinality(DOMAIN grid0) = 2 /\ grid = EmptyGrid

\* the coordinates the place_entity calls so far were made for
Targets == { << placements[k].row, placements[k].col >> : k \in 1..Len(placements) }

\* C19 (as stated): in the synthetic pattern no coordinate has more than one
\* place_entity call, and the 14 calls at grid size 11 are for 14 distinct
\* coordinates, the centre (5, 5) among them once.
C19_TargetsAreDistinct ==
  (strategy = "Phase1Pattern" /\ execs = 1) =>
    /\ \A x \in Targets : Cardinality(CallsAt(x)) = 1
    /\ pc = "done" => Cardinality(Targets) = 14

\* C19 (amended): in the synthetic pattern the only coordinate with more than
\* one place_entity call is the centre (5, 5), where the diagonals meet: it
\* has two calls, one right after the other and with the same request; the
\* 14 calls at grid size 11 are for 13 distinct coordinates.
C19_OnlyTheCentreTwice ==
  (strategy = "Phase1Pattern" /\ execs = 1) =>
    /\ \A x \in Targets :
         IF x = << 5, 5 >>
         THEN /\ Cardinality(CallsAt(x)) <= 2
              /\ \A j, k \in CallsAt(x) :
                   /\ j - k \in {-1, 0, 1}
                   /\ placements[j] = placements[k]
         ELSE Cardinality(CallsAt(x)) = 1
    /\ pc = "done" =>
         /\ Len(placements) = 14
         /\ Cardinality(Targets) = 13
         /\ Cardinality(CallsAt(<< 5, 5 >>)) = 2

C19_CentrePlacedTwice ==
  /\ pc = "done" /\ strategy = "Phase1Pattern" /\ execs = 1
  /\ all201
  /\ Cardinality(CallsAt(<< 5, 5 >>)) = 2
  /\ Cardinality(DOMAIN grid \ DOMAIN grid0) >= 11

=============================================================================
